---- MODULE Spec2Model ----
(***************************************************************************)
(* A model of small-backend (src/main.go, schema in src/unnamed/part_000): *)
(* a JSON HTTP API over two tables, tenants and shifts.                    *)
(*                                                                         *)
(* One request runs in one goroutine, on one connection of Conn.  A        *)
(* handler is cut into steps at the points where it waits for the store:   *)
(* the                                                                     *)
(* call that acquires a pool connection and sends the statement, and the   *)
(* call that reads the result and gives the connection back.  Everything   *)
(* between two such points touches only the goroutine's own variables and  *)
(* is one step.                                                            *)
(***************************************************************************)
EXTENDS Integers, Sequences, FiniteSets, TLC

(* ------------------------------ bounds --------------------------------- *)

\* Requests the server accepts in one run; all of them may be in flight at
\* the same time.
MaxReq == 2

\* Connections of the pgx pool (pgxpool's MaxConns, taken from DATABASE_URL).
MaxConns == 1

Conn == 1..MaxReq

(* --------------------------- Go / SQL values --------------------------- *)

\* A uuid column holds one of finitely many uuids; n stands for the n-th.
Uuids == 1..(3 + MaxReq)

\* id::text : the text form of a uuid.
UuidText(n) == "u" \o ToString(n)

\* The cast of a text parameter to uuid ($1 in tenant_id = $1, and in
\* VALUES ($1, ...)): 0 stands for "invalid input syntax for type uuid".
ParseUuid(s) == IF \E n \in Uuids : UuidText(n) = s
                THEN CHOOSE n \in Uuids : UuidText(n) = s
                ELSE 0

\* A Go string holding a name is its UTF-8 bytes; len() counts them.
GoLen(s) == Len(s)

\* A timestamp string, cut into the pieces the RFC3339 layout
\* "2006-01-02T15:04:05Z07:00" is made of.
RFC3339 == <<"date", "T", "time", "zone">>

\* Faulty variant: every string parses.
TimeParse_Lenient(s) == [err |-> FALSE, t |-> <<1>>]

\* time.Parse(time.RFC3339, s): the pieces of s must be those of the layout,
\* in its order.  t is the instant parsed (1: the one instant the inputs name).
TimeParse(s) == IF s = RFC3339 THEN [err |-> FALSE, t |-> <<1>>]
                ELSE [err |-> TRUE, t |-> <<>>]

\* A *string of a decoded body: absent (nil) or a string.
Nil == [set |-> FALSE, s |-> <<>>]
Str(s) == [set |-> TRUE, s |-> s]

(* ------------------------------ requests ------------------------------- *)

\* A request body.  json says what encoding/json makes of its first value:
\* "syntax" (not JSON), "type" (JSON, but a field of the wrong type) or
\* "ok"; the other fields are the decoded ones (a missing field is its zero
\* value).
Body(json, name, tid, title, st, et) ==
    [json |-> json, name |-> name, tenant_id |-> tid, title |-> title,
     starts_at |-> st, ends_at |-> et]

NoBody == Body("none", <<>>, "", "", Nil, Nil)

TenantBody(json, name) == Body(json, name, "", "", Nil, Nil)

ShiftBody(tid, title, st, et) == Body("ok", <<>>, tid, title, st, et)

Request(method, path, q, body) ==
    [method |-> method, path |-> path, tenant_id |-> q, body |-> body]

NoReq == Request("", "", "", NoBody)

\* Timestamp strings: a valid one, one without zone, one that is no
\* timestamp, and the empty string.
GoodTime == RFC3339
NoZone == <<"date", "T", "time">>
Garbage == <<"x">>
EmptyStr == <<>>

\* Names: "a", and the two bytes of "é".
ShortName == <<97>>
TwoBytes == <<195, 169>>

ShiftBodies ==
    {ShiftBody(t, "t", Nil, Nil) : t \in {"", UuidText(1), UuidText(3)}}
    \cup {ShiftBody(UuidText(1), "", Nil, Nil),
          ShiftBody(UuidText(1), "t", Str(GoodTime), Str(EmptyStr)),
          ShiftBody(UuidText(1), "t", Str(NoZone), Nil),
          ShiftBody(UuidText(1), "t", Str(GoodTime), Str(Garbage)),
          ShiftBody("", "t", Str(Garbage), Nil),
          Body("syntax", <<>>, "", "", Nil, Nil)}

TenantBodies ==
    {TenantBody("ok", ShortName), TenantBody("ok", TwoBytes),
     TenantBody("syntax", <<>>)}

\* The requests clients send.
Requests ==
    {Request("GET", "/healthz", "", NoBody)}
    \cup {Request("OPTIONS", p, "", NoBody) : p \in {"/api/tenants", "/api/other"}}
    \cup {Request("GET", "/api/tenants", "", NoBody)}
    \cup {Request("POST", "/api/tenants", "", b) : b \in TenantBodies}
    \cup {Request("GET", "/api/shifts", t, NoBody) :
             t \in {"", "bad", UuidText(1)}}
    \cup {Request("POST", "/api/shifts", "", b) : b \in ShiftBodies}

(* ------------------------------ responses ------------------------------ *)

\* http.ResponseWriter: the codes given to WriteHeader in call order (the
\* first is the status sent, net/http drops the later ones), whether the
\* three CORS headers are set, and the documents written to the body.
NoResp == [codes |-> <<>>, cors |-> FALSE, body |-> <<>>]

WriteHeader(w, code) == [w EXCEPT !.codes = Append(@, code)]

Write(w, doc) == [w EXCEPT !.body = Append(@, doc)]

\* The status the client receives; 0: nothing written yet.
Status(w) == IF w.codes # <<>> THEN w.codes[1]
             ELSE IF w.body # <<>> THEN 200 ELSE 0

ErrorDoc(msg) == [kind |-> "error", msg |-> msg]

\* json.Encoder.Encode of a slice: a nil slice is written as null, any
\* other as an array of its elements.
EncodeSlice(out) == IF out = <<>> THEN [kind |-> "null"]
                    ELSE [kind |-> "array", items |-> out]

jsonOK(w, out) == Write(WriteHeader(w, 200), EncodeSlice(out))

\* As written in the source, jsonCreated encodes map[string]any{"error": msg}
\* (msg is no variable of the function) and never v.
jsonCreated(w, v) == Write(WriteHeader(w, 201), ErrorDoc("msg"))

jsonError(w, code, msg) == Write(WriteHeader(w, code), ErrorDoc(msg))

(* ------------------------------- store --------------------------------- *)

\* uuid_generate_v4(): a uuid no row of the table has (the primary key
\* admits no other).
NewId(table) == CHOOSE n \in Uuids :
                   /\ \A x \in table : x.id # n
                   /\ \A m \in Uuids : (\A x \in table : x.id # m) => n <= m

\* INSERT INTO tenants (name) VALUES ($1) RETURNING ...; now is the row's
\* created_at.  The result: the error, the row returned, the table after.
InsertTenant(table, name, now) ==
    LET row == [id |-> NewId(table), name |-> name, created_at |-> now]
    IN  [err |-> FALSE, row |-> <<row>>, table |-> table \cup {row}]

\* Faulty variant: the table has no referential constraint.
References_Unchecked(tens, uuid) == TRUE

\* tenant_id uuid NOT NULL REFERENCES tenants(id): the referential check
\* of an insert into shifts.
References(tens, uuid) == \E t \in tens : t.id = uuid

\* INSERT INTO shifts (tenant_id, title, starts_at, ends_at) VALUES ($1..$4)
\* RETURNING ...: fails when $1 is no uuid or references no tenant.
InsertShift(table, tens, tid, title, st, et, now) ==
    LET uuid == ParseUuid(tid)
        row == [id |-> NewId(table), tenant_id |-> uuid, title |-> title,
                starts_at |-> st, ends_at |-> et, created_at |-> now]
    IN  IF uuid = 0 \/ ~References(tens, uuid)
        THEN [err |-> TRUE, row |-> <<>>, table |-> table]
        ELSE [err |-> FALSE, row |-> <<row>>, table |-> table \cup {row}]

\* ORDER BY created_at DESC over a sequence of rows.
OrderedDesc(rows) ==
    \A i, j \in 1..Len(rows) : i < j => rows[i].created_at >= rows[j].created_at

\* The results a SELECT ... ORDER BY created_at DESC may return for the
\* rows selected: each row once, newest first, rows of one instant in any
\* order.
OrderBy(sel) ==
    {rows \in [1..Cardinality(sel) -> sel] :
        /\ \A i, j \in 1..Cardinality(sel) : i # j => rows[i] # rows[j]
        /\ OrderedDesc(rows)}

\* SELECT id::text, name, created_at FROM tenants ORDER BY created_at DESC
SelectTenants(tens) == OrderBy(tens)

\* Faulty variant: the WHERE clause is left out.
WhereTenant_All(shs, uuid) == shs

\* The WHERE clause listShifts adds: tenant_id = $1.
WhereTenant(shs, uuid) == {s \in shs : s.tenant_id = uuid}

\* SELECT ... FROM shifts [WHERE tenant_id = $1] ORDER BY created_at DESC;
\* tenantID = "" is the query without WHERE.  err: $1 is no uuid.
SelectShifts(shs, tenantID) ==
    IF tenantID = "" THEN [err |-> FALSE, results |-> OrderBy(shs)]
    ELSE IF ParseUuid(tenantID) = 0 THEN [err |-> TRUE, results |-> {<<>>}]
    ELSE [err |-> FALSE,
          results |-> OrderBy(WhereTenant(shs, ParseUuid(tenantID)))]

\* rows.Scan into a Tenant / a Shift: the uuid columns arrive as text.
ScanTenant(row) ==
    [ID |-> UuidText(row.id), Name |-> row.name, CreatedAt |-> row.created_at]

ScanShift(row) ==
    [ID |-> UuidText(row.id), TenantID |-> UuidText(row.tenant_id),
     Title |-> row.title, StartsAt |-> row.starts_at, EndsAt |-> row.ends_at,
     CreatedAt |-> row.created_at]

\* The loop that scans every row of a result into out.
ScanTenants(rows) == [i \in 1..Len(rows) |-> ScanTenant(rows[i])]

ScanShifts(rows) == [i \in 1..Len(rows) |-> ScanShift(rows[i])]

(* ------------------------------- routing ------------------------------- *)

\* The patterns main registers on the ServeMux.  method "" is any method.
Patterns ==
    {[method |-> "",     path |-> "/healthz",     handler |-> "healthz"],
     [method |-> "GET",  path |-> "/api/tenants", handler |-> "listTenants"],
     [method |-> "POST", path |-> "/api/tenants", handler |-> "createTenant"],
     [method |-> "GET",  path |-> "/api/shifts",  handler |-> "listShifts"],
     [method |-> "POST", path |-> "/api/shifts",  handler |-> "createShift"]}

\* ServeMux: the handler of the pattern that matches method and path (a GET
\* pattern also serves HEAD); "405" when the path is registered for other
\* methods only, "404" when it is not registered.
Route(method, path) ==
    LET onPath == {p \in Patterns : p.path = path}
        match == {p \in onPath : \/ p.method = ""
                                 \/ p.method = method
                                 \/ (p.method = "GET" /\ method = "HEAD")}
    IN  IF onPath = {} THEN "404"
        ELSE IF match = {} THEN "405"
        ELSE (CHOOSE p \in match : TRUE).handler

\* Which handlers main wraps in withCORS.
Wrapped(handler) == handler # "healthz"

(* -------------------------------- state -------------------------------- *)

VARIABLES
    pc,          \* per connection: where its goroutine stands
    req,         \* per connection: the request being served
    w,           \* per connection: the http.ResponseWriter of the request
    loc,         \* per connection: the handler's local variables
    calls,       \* per connection: calls made on a.DB for the request
    holders,     \* the connections whose handler holds a pool connection
    poolClosed,  \* pool.Close() has been called: Acquire is rejected
    tenants,     \* the rows of table tenants
    shifts,      \* the rows of table shifts
    clock,       \* the store's now()
    main,        \* where func main stands
    shutdownErr  \* what srv.Shutdown returned

vars == <<pc, req, w, loc, calls, holders, poolClosed, tenants, shifts,
          clock, main, shutdownErr>>

handlerVars == <<pc, req, w, loc, calls>>
storeVars == <<tenants, shifts, clock>>
mainVars == <<main, shutdownErr, poolClosed>>

\* A handler's locals: err of the last call, the rows of a Query
\* (rows) or the entity scanned from a QueryRow (t: none or one), the
\* statement's now() (ts) and the parsed starts_at and ends_at (st, et).
NoLoc == [err |-> FALSE, rows |-> <<>>, t |-> <<>>, ts |-> 0,
          st |-> <<>>, et |-> <<>>]

\* The goroutine is inside ServeHTTP.
InFlight(r) == pc[r] \notin {"idle", "done"}

\* The process is alive: goroutines run.
Running == main # "exited"

\* The store outlives the process (CREATE TABLE IF NOT EXISTS): at start
\* it is empty, or holds rows earlier runs created through this API.  Here:
\* two tenants, and three shifts of which two were created at one instant.
SeedTenants ==
    {[id |-> 1, name |-> <<97, 98>>, created_at |-> 0],
     [id |-> 2, name |-> <<99, 100, 101>>, created_at |-> 1]}

SeedShifts ==
    {[id |-> 1, tenant_id |-> 1, title |-> "early", starts_at |-> <<>>,
      ends_at |-> <<>>, created_at |-> 2],
     [id |-> 2, tenant_id |-> 2, title |-> "late", starts_at |-> <<1>>,
      ends_at |-> <<>>, created_at |-> 3],
     [id |-> 3, tenant_id |-> 1, title |-> "late", starts_at |-> <<>>,
      ends_at |-> <<>>, created_at |-> 3]}

Init ==
    /\ pc = [r \in Conn |-> "idle"]
    /\ req = [r \in Conn |-> NoReq]
    /\ w = [r \in Conn |-> NoResp]
    /\ loc = [r \in Conn |-> NoLoc]
    /\ calls = [r \in Conn |-> 0]
    /\ holders = {}
    /\ poolClosed = FALSE
    /\ \/ tenants = {} /\ shifts = {} /\ clock = 0
       \/ tenants = SeedTenants /\ shifts = SeedShifts /\ clock = 4
    /\ main = "serving"
    /\ shutdownErr = "none"

(* -------------------------------- pool --------------------------------- *)

\* pgxpool's Acquire inside Query and QueryRow: it returns once a
\* connection is free, or with an error once the pool is closed.
CanAcquire == poolClosed \/ Cardinality(holders) < MaxConns

Acquire(r) == IF poolClosed THEN holders ELSE holders \cup {r}

\* rows.Close() and Row.Scan give the connection back.
Release(r) == holders \ {r}

(* ------------------------- decoding and validation --------------------- *)

\* json.NewDecoder(r.Body).Decode(&body) for createTenant's body struct.
DecodeTenant(b) == IF b.json = "ok" THEN [err |-> FALSE, Name |-> b.name]
                   ELSE [err |-> TRUE, Name |-> <<>>]

\* Faulty variant: the name check accepts one byte.
NameTooShort_OneByte(name) == GoLen(name) < 1

\* The name check of createTenant.
NameTooShort(name) == GoLen(name) < 2

Pass(st, et) == [code |-> 0, msg |-> "", st |-> st, et |-> et]
Fail(code, msg) == [code |-> code, msg |-> msg, st |-> <<>>, et |-> <<>>]

\* createTenant up to the storage call: decode, then the name check.
\* code 0: every check passed.
ValidateTenant(b) ==
    LET d == DecodeTenant(b)
    IN  IF d.err THEN Fail(400, "invalid json")
        ELSE IF NameTooShort(d.Name)
        THEN Fail(422, "name must be at least 2 characters")
        ELSE Pass(<<>>, <<>>)

\* json.NewDecoder(r.Body).Decode(&body) for createShift's body struct.
DecodeShift(b) ==
    IF b.json = "ok"
    THEN [err |-> FALSE, TenantID |-> b.tenant_id, Title |-> b.title,
          StartsAt |-> b.starts_at, EndsAt |-> b.ends_at]
    ELSE [err |-> TRUE, TenantID |-> "", Title |-> "", StartsAt |-> Nil,
          EndsAt |-> Nil]

\* body.StartsAt != nil && *body.StartsAt != "": the timestamp is parsed.
Given(p) == p.set /\ p.s # <<>>

\* One optional timestamp of createShift: nil when not given, else parsed.
ParseOptional(p) == IF Given(p) THEN TimeParse(p.s)
                    ELSE [err |-> FALSE, t |-> <<>>]

\* createShift up to the storage call.  code 0: every check passed, and st
\* and et are the parsed timestamps.
ValidateShift(b) ==
    LET d == DecodeShift(b)
        s == ParseOptional(d.StartsAt)
        e == ParseOptional(d.EndsAt)
    IN  IF d.err THEN Fail(400, "invalid json")
        ELSE IF d.TenantID = "" \/ d.Title = ""
        THEN Fail(422, "tenant_id and title required")
        ELSE IF s.err THEN Fail(422, "invalid starts_at format (RFC3339)")
        ELSE IF e.err THEN Fail(422, "invalid ends_at format (RFC3339)")
        ELSE Pass(s.t, e.t)

\* What a handler does before its storage call.
Validate(handler, b) ==
    CASE handler = "createTenant" -> ValidateTenant(b)
      [] handler = "createShift" -> ValidateShift(b)
      [] OTHER -> Pass(<<>>, <<>>)

(* ------------------------------ middleware ----------------------------- *)

\* withCORS: the three headers, then 204 for OPTIONS and the wrapped handler
\* for the rest.  The result: the writer, and whether next.ServeHTTP runs.
withCORS(wr, method) ==
    LET h == [wr EXCEPT !.cors = TRUE]
    IN  IF method = "OPTIONS"
        THEN [w |-> WriteHeader(h, 204), next |-> FALSE]
        ELSE [w |-> h, next |-> TRUE]

\* The mux's own answers, http.NotFound and the 405 of a path registered
\* for other methods: a plain-text body, no handler.
MuxError(h) == Write(WriteHeader(NoResp, IF h = "404" THEN 404 ELSE 405),
                     [kind |-> "text"])

\* healthz: w.Write([]byte("ok")).
healthz(wr) == Write(wr, [kind |-> "text"])

\* The server accepts a request on connection r (connections are taken in
\* order), the ServeMux dispatches it, and the handler runs up to its first
\* call on a.DB: the mux answers 404 and 405 itself, healthz answers at
\* once, an /api handler starts behind withCORS and validates the body.
Arrive(r, q) ==
    /\ main = "serving"
    /\ pc[r] = "idle"
    /\ \A o \in Conn : o < r => pc[o] # "idle"
    /\ req' = [req EXCEPT ![r] = q]
    /\ LET h == Route(q.method, q.path)
           c == withCORS(NoResp, q.method)
           v == Validate(h, q.body)
       IN  IF h \in {"404", "405"}
           THEN /\ w' = [w EXCEPT ![r] = MuxError(h)]
                /\ pc' = [pc EXCEPT ![r] = "done"]
                /\ loc' = loc
           ELSE IF ~Wrapped(h)
           THEN /\ w' = [w EXCEPT ![r] = healthz(NoResp)]
                /\ pc' = [pc EXCEPT ![r] = "done"]
                /\ loc' = loc
           ELSE IF ~c.next
           THEN /\ w' = [w EXCEPT ![r] = c.w]
                /\ pc' = [pc EXCEPT ![r] = "done"]
                /\ loc' = loc
           ELSE IF v.code # 0
           THEN /\ w' = [w EXCEPT ![r] = jsonError(c.w, v.code, v.msg)]
                /\ pc' = [pc EXCEPT ![r] = "done"]
                /\ loc' = loc
           ELSE /\ w' = [w EXCEPT ![r] = c.w]
                /\ pc' = [pc EXCEPT ![r] = h]
                /\ loc' = [loc EXCEPT ![r].st = v.st, ![r].et = v.et]
    /\ UNCHANGED <<calls, holders, storeVars, mainVars>>

(* ------------------------ the link to the store ------------------------ *)

\* How a statement sent on a pool connection ends for the handler: the
\* store's reply arrives ("ok"), the statement never runs ("down"), or it
\* runs and the reply is lost ("lost"); the last two reach the handler as
\* an error of Scan.
Outcomes == {"ok", "down", "lost"}

\* What the handler gets (err, row) and the table after, for the result
\* res the store computed on table.
Reply(net, table, res) ==
    CASE net = "ok" -> res
      [] net = "down" -> [err |-> TRUE, row |-> <<>>, table |-> table]
      [] net = "lost" -> [err |-> TRUE, row |-> <<>>, table |-> res.table]

(* ----------------------------- createTenant ---------------------------- *)

\* a.DB.QueryRow(...): a connection is acquired and the INSERT sent; the
\* statement's now() is read as it starts.
CreateTenantQueryRow(r) ==
    /\ Running
    /\ pc[r] = "createTenant"
    /\ CanAcquire
    /\ holders' = Acquire(r)
    /\ calls' = [calls EXCEPT ![r] = @ + 1]
    /\ loc' = [loc EXCEPT ![r].err = poolClosed, ![r].ts = clock]
    /\ pc' = [pc EXCEPT ![r] = "ct_Scan"]
    /\ UNCHANGED <<req, w, storeVars, mainVars>>

\* What createTenant writes once Scan has returned err: the error branch
\* has no return, so jsonCreated runs after jsonError.
CreateTenantRespond(wr, err, t) ==
    IF err THEN jsonCreated(jsonError(wr, 500, "storage"), t)
    ELSE jsonCreated(wr, t)

\* .Scan(&t.ID, &t.Name, &t.CreatedAt): the statement completes (or the
\* store fails), the connection goes back to the pool, the response is
\* written.
CreateTenantScan(r) ==
    /\ Running
    /\ pc[r] = "ct_Scan"
    /\ \E net \in Outcomes :
         LET name == DecodeTenant(req[r].body).Name
             res == IF loc[r].err THEN [err |-> TRUE, row |-> <<>>, table |-> tenants]
                    ELSE Reply(net, tenants, InsertTenant(tenants, name, loc[r].ts))
             t == ScanTenants(res.row)
         IN  /\ tenants' = res.table
             /\ clock' = IF res.table = tenants THEN clock ELSE clock + 1
             /\ loc' = [loc EXCEPT ![r].err = res.err, ![r].t = t]
             /\ w' = [w EXCEPT ![r] = CreateTenantRespond(@, res.err, t)]
    /\ holders' = Release(r)
    /\ pc' = [pc EXCEPT ![r] = "done"]
    /\ UNCHANGED <<req, calls, shifts, mainVars>>

(* ------------------------------ listTenants ---------------------------- *)

\* a.DB.Query(...): a connection is acquired and the SELECT run.  When the
\* call fails pgxpool has already given the connection back; otherwise the
\* handler holds it, through rows, until rows.Close().
ListTenantsQuery(r) ==
    /\ Running
    /\ pc[r] = "listTenants"
    /\ CanAcquire
    /\ calls' = [calls EXCEPT ![r] = @ + 1]
    /\ \E fail \in BOOLEAN :
         IF poolClosed \/ fail
         THEN /\ loc' = [loc EXCEPT ![r].err = TRUE]
              /\ w' = [w EXCEPT ![r] = jsonError(@, 500, "storage")]
              /\ pc' = [pc EXCEPT ![r] = "done"]
              /\ holders' = holders
         ELSE /\ \E rows \in SelectTenants(tenants) :
                    loc' = [loc EXCEPT ![r].rows = rows]
              /\ w' = w
              /\ pc' = [pc EXCEPT ![r] = "lt_rows"]
              /\ holders' = Acquire(r)
    /\ UNCHANGED <<req, storeVars, mainVars>>

\* The faults of reading a result: none, a rows.Scan error (there must be a
\* row to scan), or rows.Err() after the loop.
RowFaults(rows) == {"none", "rows"} \cup (IF Len(rows) > 0 THEN {"scan"} ELSE {})

\* What a list handler writes after its loop over rows.
ListRespond(wr, fault, out) ==
    IF fault = "none" THEN jsonOK(wr, out) ELSE jsonError(wr, 500, "storage")

\* Faulty variant: the return on a Scan error skips rows.Close().
DeferredClose_NotOnScanError(r, fault) ==
    IF fault = "scan" THEN holders ELSE Release(r)

\* defer rows.Close(): the pool connection is given back on every return
\* that follows a successful Query.
DeferredClose(r, fault) == Release(r)

\* The loop over rows.Next(), rows.Err(), the response and the deferred
\* rows.Close().
ListTenantsRows(r) ==
    /\ Running
    /\ pc[r] = "lt_rows"
    /\ \E fault \in RowFaults(loc[r].rows) :
         /\ loc' = [loc EXCEPT ![r].err = (fault # "none")]
         /\ w' = [w EXCEPT ![r] =
                     ListRespond(@, fault, ScanTenants(loc[r].rows))]
         /\ holders' = DeferredClose(r, fault)
    /\ pc' = [pc EXCEPT ![r] = "done"]
    /\ UNCHANGED <<req, calls, storeVars, mainVars>>

(* ------------------------------ listShifts ----------------------------- *)

\* listShifts builds the query from r.URL.Query().Get("tenant_id") and runs
\* it; see ListTenantsQuery for the connection.
ListShiftsQuery(r) ==
    /\ Running
    /\ pc[r] = "listShifts"
    /\ CanAcquire
    /\ calls' = [calls EXCEPT ![r] = @ + 1]
    /\ \E fail \in BOOLEAN :
         LET sel == SelectShifts(shifts, req[r].tenant_id)
         IN  IF poolClosed \/ fail \/ sel.err
             THEN /\ loc' = [loc EXCEPT ![r].err = TRUE]
                  /\ w' = [w EXCEPT ![r] = jsonError(@, 500, "storage")]
                  /\ pc' = [pc EXCEPT ![r] = "done"]
                  /\ holders' = holders
             ELSE /\ \E rows \in sel.results :
                        loc' = [loc EXCEPT ![r].rows = rows]
                  /\ w' = w
                  /\ pc' = [pc EXCEPT ![r] = "ls_rows"]
                  /\ holders' = Acquire(r)
    /\ UNCHANGED <<req, storeVars, mainVars>>

ListShiftsRows(r) ==
    /\ Running
    /\ pc[r] = "ls_rows"
    /\ \E fault \in RowFaults(loc[r].rows) :
         /\ loc' = [loc EXCEPT ![r].err = (fault # "none")]
         /\ w' = [w EXCEPT ![r] =
                     ListRespond(@, fault, ScanShifts(loc[r].rows))]
         /\ holders' = DeferredClose(r, fault)
    /\ pc' = [pc EXCEPT ![r] = "done"]
    /\ UNCHANGED <<req, calls, storeVars, mainVars>>

(* ----------------------------- createShift ----------------------------- *)

CreateShiftQueryRow(r) ==
    /\ Running
    /\ pc[r] = "createShift"
    /\ CanAcquire
    /\ holders' = Acquire(r)
    /\ calls' = [calls EXCEPT ![r] = @ + 1]
    /\ loc' = [loc EXCEPT ![r].err = poolClosed, ![r].ts = clock]
    /\ pc' = [pc EXCEPT ![r] = "cs_Scan"]
    /\ UNCHANGED <<req, w, storeVars, mainVars>>

\* What createShift writes once Scan has returned err.
CreateShiftRespond(wr, err, s) ==
    IF err THEN jsonError(wr, 500, "storage") ELSE jsonCreated(wr, s)

CreateShiftScan(r) ==
    /\ Running
    /\ pc[r] = "cs_Scan"
    /\ \E net \in Outcomes :
         LET d == DecodeShift(req[r].body)
             res == IF loc[r].err THEN [err |-> TRUE, row |-> <<>>, table |-> shifts]
                    ELSE Reply(net, shifts,
                               InsertShift(shifts, tenants, d.TenantID, d.Title,
                                           loc[r].st, loc[r].et, loc[r].ts))
             s == ScanShifts(res.row)
         IN  /\ shifts' = res.table
             /\ clock' = IF res.table = shifts THEN clock ELSE clock + 1
             /\ loc' = [loc EXCEPT ![r].err = res.err, ![r].t = s]
             /\ w' = [w EXCEPT ![r] = CreateShiftRespond(@, res.err, s)]
    /\ holders' = Release(r)
    /\ pc' = [pc EXCEPT ![r] = "done"]
    /\ UNCHANGED <<req, calls, tenants, mainVars>>

(* --------------------------------- main -------------------------------- *)

\* <-stop, then srv.Shutdown(ctx) begins: the listener is closed.
Interrupt ==
    /\ main = "serving"
    /\ main' = "shutdown"
    /\ UNCHANGED <<handlerVars, holders, storeVars, shutdownErr, poolClosed>>

\* Faulty variant: Shutdown does not wait for handlers.
ServerIdle_NoWait == TRUE

\* What srv.Shutdown waits for: no connection is serving a request.
ServerIdle == \A r \in Conn : ~InFlight(r)

\* srv.Shutdown returns nil, every handler having returned; main returns
\* and its deferred calls run: cancel(), then pool.Close(), which marks the
\* pool closed at once.
ShutdownReturns ==
    /\ main = "shutdown"
    /\ ServerIdle
    /\ main' = "closing"
    /\ shutdownErr' = "nil"
    /\ poolClosed' = TRUE
    /\ UNCHANGED <<handlerVars, holders, storeVars>>

\* The 5 s of ctx run out with a handler still running: srv.Shutdown
\* returns context.DeadlineExceeded, and main goes on as above.
ShutdownTimesOut ==
    /\ main = "shutdown"
    /\ ~ServerIdle
    /\ main' = "closing"
    /\ shutdownErr' = "deadline"
    /\ poolClosed' = TRUE
    /\ UNCHANGED <<handlerVars, holders, storeVars>>

\* pool.Close() returns, which it does once every connection is back; main
\* has returned, and the process ends with every goroutine still running.
Exit ==
    /\ main = "closing"
    /\ holders = {}
    /\ main' = "exited"
    /\ UNCHANGED <<handlerVars, holders, storeVars, shutdownErr, poolClosed>>

(* ----------------------------- specification --------------------------- *)

Next ==
    \/ \E r \in Conn : \E q \in Requests : Arrive(r, q)
    \/ \E r \in Conn : CreateTenantQueryRow(r)
    \/ \E r \in Conn : CreateTenantScan(r)
    \/ \E r \in Conn : ListTenantsQuery(r)
    \/ \E r \in Conn : ListTenantsRows(r)
    \/ \E r \in Conn : ListShiftsQuery(r)
    \/ \E r \in Conn : ListShiftsRows(r)
    \/ \E r \in Conn : CreateShiftQueryRow(r)
    \/ \E r \in Conn : CreateShiftScan(r)
    \/ Interrupt
    \/ ShutdownReturns
    \/ ShutdownTimesOut
    \/ Exit

Spec == Init /\ [][Next]_vars

(* ------------------------- vocabulary of the claims -------------------- *)

\* The handler of connection r has returned.
Done(r) == pc[r] = "done"

Is(r, method, path) == req[r].method = method /\ req[r].path = path

\* The response of r is one error document with status code, and nothing
\* else was written.
ErrorOnly(r, code) ==
    /\ w[r].codes = <<code>>
    /\ Len(w[r].body) = 1
    /\ w[r].body[1].kind = "error"

\* The response of r is the error document with this status and message.
Rejected(r, code, msg) == ErrorOnly(r, code) /\ w[r].body[1].msg = msg

\* The body is one the JSON decoder rejects.
MalformedJSON(b) == b.json # "ok"

MissingRequired(b) == b.tenant_id = "" \/ b.title = ""

\* A timestamp field that is present, is not the empty string, and is no
\* date-time with time zone.
BadTime(p) == p.set /\ p.s # EmptyStr /\ p.s # GoodTime

\* The requests that created a row: Scan returned the row inserted.
Created(path) ==
    {r \in Conn : Done(r) /\ Is(r, "POST", path) /\ calls[r] = 1 /\ ~loc[r].err}

\* The requests that have returned from their one call on the store.
Called(path) == {r \in Conn : Done(r) /\ Is(r, "POST", path) /\ calls[r] = 1}

\* The rows added since the process started.
NewTenants == tenants \ SeedTenants
NewShifts == shifts \ SeedShifts

(* --------------------------------- C1 ---------------------------------- *)

TenantIdsStored == {UuidText(t.id) : t \in tenants}

\* C2: every stored shift's tenant_id is the id of a stored tenant, and a
\* createShift whose tenant_id is the id of no stored tenant has failed
\* (Scan returned an error, the answer is not 201) and left no shift with
\* that tenant_id.
C2_ShiftsReferenceTenants ==
    /\ \A s \in shifts : \E t \in tenants : t.id = s.tenant_id
    /\ \A r \in Conn :
         Done(r) /\ Is(r, "POST", "/api/shifts") /\ calls[r] = 1
            /\ req[r].body.tenant_id \notin TenantIdsStored =>
         /\ loc[r].err
         /\ loc[r].t = <<>>
         /\ Status(w[r]) # 201
         /\ \A s \in shifts : UuidText(s.tenant_id) # req[r].body.tenant_id

\* Next to a createTenant that stored a tenant, a createShift naming a
\* tenant that is not stored has failed at the store.
C2_Witness ==
    \E r, o \in Conn :
        /\ Done(r) /\ Is(r, "POST", "/api/shifts") /\ calls[r] = 1
        /\ req[r].body.tenant_id \notin TenantIdsStored
        /\ loc[r].err
        /\ o \in Created("/api/tenants")

(* --------------------------------- C3 ---------------------------------- *)

\* C3: for every name of 2 bytes or more, a POST /api/tenants whose insert
\* succeeded has answered 201 with one document, the Tenant stored: its
\* name is the submitted name, its id that of no other tenant; and exactly
\* one row was added for it.
C3_CreatedTenantReturned ==
    \A r \in Conn :
        r \in Created("/api/tenants") /\ Len(req[r].body.name) >= 2 =>
        /\ w[r].codes = <<201>>
        /\ Len(w[r].body) = 1
        /\ w[r].body[1].kind = "tenant"
        /\ w[r].body[1].Name = req[r].body.name
        /\ \A o \in Created("/api/tenants") \ {r} :
              w[o].body[1].ID # w[r].body[1].ID
        /\ Cardinality({t \in tenants : UuidText(t.id) = w[r].body[1].ID}) = 1

(* --------------------------------- C4 ---------------------------------- *)

ApiPaths == {"/api/tenants", "/api/shifts", "/api/other"}

\* C4: an OPTIONS request to any /api/ path is answered 204 with an empty
\* body and the CORS headers, without a call on the store, whether or not
\* the path is registered.
C4_Preflight ==
    \A r \in Conn :
        Done(r) /\ req[r].method = "OPTIONS" /\ req[r].path \in ApiPaths =>
        /\ w[r].codes = <<204>>
        /\ w[r].body = <<>>
        /\ w[r].cors
        /\ calls[r] = 0

(* --------------------------------- C5 ---------------------------------- *)

\* C5: a request whose storage call failed is answered once: status 500
\* and one error document, no other status or document written, and the
\* call made once.
C5_StorageFailureAnsweredOnce ==
    \A r \in Conn :
        Done(r) /\ calls[r] >= 1 /\ loc[r].err =>
        /\ ErrorOnly(r, 500)
        /\ calls[r] = 1

(* --------------------------------- C6 ---------------------------------- *)

\* C6 as claimed: the pool is closed only when no request handler is still
\* running, the expiry of the grace period included.
C6_PoolClosedAfterHandlers ==
    poolClosed => \A r \in Conn : ~InFlight(r)

\* After the interrupt no connection takes a new request.
NoNewRequests ==
    main # "serving" => \A r \in Conn : pc[r] = "idle" => pc'[r] = "idle"

\* C6 as amended: after the interrupt no new request is accepted; the pool
\* is closed only after srv.Shutdown has returned; when it returned nil, no
\* request handler is running while the pool is closed; when the grace
\* period expired, handlers may still be running, and the process ends only
\* once every pool connection they held is back.
C6_PoolClosedAfterShutdown ==
    /\ [](/\ poolClosed <=> main \in {"closing", "exited"}
          /\ poolClosed <=> shutdownErr # "none"
          /\ poolClosed /\ shutdownErr = "nil" => \A r \in Conn : ~InFlight(r)
          /\ main = "exited" => holders = {})
    /\ [][NoNewRequests]_vars

\* The grace period expired with a handler running, the pool was closed
\* and the process has ended with that handler unfinished.
C6_Witness ==
    /\ main = "exited"
    /\ shutdownErr = "deadline"
    /\ \E r \in Conn : InFlight(r)
    /\ \E r \in Conn : Done(r) /\ calls[r] = 1 /\ loc[r].err

(* --------------------------------- C7 ---------------------------------- *)

\* The stored shifts GET /api/shifts?tenant_id=X is to return.
Matching(X) == IF X = "" THEN shifts
               ELSE {s \in shifts : UuidText(s.tenant_id) = X}

NewestFirst(rows) ==
    \A i, j \in 1..Len(rows) : i < j => rows[j].created_at <= rows[i].created_at

\* The elements of the list a 200 response carries.
Returned(r) == IF w[r].body[1].kind = "array" THEN w[r].body[1].items ELSE <<>>

\* The step in which listShifts on connection r runs its query.
ListShiftsQueried(r) == pc[r] = "listShifts" /\ pc'[r] = "ls_rows"

\* C7: the rows a successful query of listShifts reads are exactly the
\* shifts stored at that moment whose tenant_id is X (all of them without
\* X), each once, newest created_at first; and the 200 response carries
\* these rows, in this order.
C7_ListShifts ==
    /\ [][\A r \in Conn : ListShiftsQueried(r) =>
            LET rows == loc'[r].rows
                want == Matching(req[r].tenant_id)
            IN  /\ Len(rows) = Cardinality(want)
                /\ {rows[i] : i \in 1..Len(rows)} = want
                /\ NewestFirst(rows)]_vars
    /\ [](\A r \in Conn :
            Done(r) /\ Is(r, "GET", "/api/shifts") /\ ~loc[r].err =>
            LET rows == loc[r].rows
                out == Returned(r)
            IN  /\ w[r].codes = <<200>>
                /\ Len(w[r].body) = 1
                /\ Len(out) = Len(rows)
                /\ \A i \in 1..Len(rows) :
                      /\ out[i].ID = UuidText(rows[i].id)
                      /\ out[i].TenantID = UuidText(rows[i].tenant_id)
                      /\ out[i].CreatedAt = rows[i].created_at
                      /\ req[r].tenant_id # "" =>
                            out[i].TenantID = req[r].tenant_id)

\* With shifts of another tenant stored, a list for tenant u1 has returned
\* two shifts of u1 while a shift created during the request is stored too.
C7_Witness ==
    \E r \in Conn :
        /\ Done(r) /\ Is(r, "GET", "/api/shifts") /\ ~loc[r].err
        /\ req[r].tenant_id = UuidText(1)
        /\ Len(Returned(r)) = 2
        /\ NewShifts # {}
        /\ \E s \in shifts : s.tenant_id # 1

(* --------------------------------- C8 ---------------------------------- *)

\* C8: GET /api/tenants answers 200 with one array holding each tenant it
\* read once, a tenant created later before one created earlier; with no
\* tenant stored the array is empty, and the answer is no error.
C8_ListTenants ==
    \A r \in Conn :
        Done(r) /\ Is(r, "GET", "/api/tenants") /\ ~loc[r].err =>
        /\ w[r].codes = <<200>>
        /\ Len(w[r].body) = 1
        /\ w[r].body[1].kind = "array"
        /\ Len(w[r].body[1].items) = Len(loc[r].rows)
        /\ \A i, j \in 1..Len(loc[r].rows) :
              /\ i # j => loc[r].rows[i] # loc[r].rows[j]
              /\ loc[r].rows[i].created_at > loc[r].rows[j].created_at => i < j

(* --------------------------------- C9 ---------------------------------- *)

\* A timestamp field that is present and is no date-time with time zone,
\* the empty string included.
Unparseable(p) == p.set /\ p.s # GoodTime

\* The createShift requests that passed the checks on JSON and on the
\* required fields.
ShiftWithFields(r) ==
    /\ Done(r) /\ Is(r, "POST", "/api/shifts")
    /\ ~MalformedJSON(req[r].body)
    /\ ~MissingRequired(req[r].body)

C10_ConnectionsReleased ==
    /\ Cardinality(holders) <= MaxConns
    /\ \A r \in Conn :
          r \in holders => pc[r] \in {"ct_Scan", "cs_Scan", "lt_rows", "ls_rows"}
    /\ (\A r \in Conn : Done(r)) => holders = {}

\* Every request has returned and no connection is in use, one request
\* having failed while reading rows and one having been answered.
C10_Witness ==
    /\ \A r \in Conn : Done(r)
    /\ holders = {}
    /\ \E r \in Conn : calls[r] = 1 /\ loc[r].rows # <<>> /\ loc[r].err
    /\ \E r \in Conn : calls[r] = 1 /\ ~loc[r].err

====
